---------------------------- MODULE Spec2Model ----------------------------
(***************************************************************************)
(* Watt Watcher: the power-threshold classifier and the delay (debounce)   *)
(* state machine of custom_components/watt_watcher/coordinator.py.         *)
(*                                                                         *)
(* Time is in whole seconds (the code truncates every duration with int()),*)
(* power and thresholds are whole watts.  One tick of the coordinator      *)
(* (_async_update_data) is one atomic step: the integration is polled by a *)
(* single scheduler and a tick runs to completion.  All the calls to       *)
(* datetime.now() inside one tick are taken to return the same instant.    *)
(***************************************************************************)
EXTENDS Integers, Sequences, FiniteSets, TLC

VARIABLES
    coordinator,      \* the WattWatcherCoordinator object (configuration and state fields)
    now,              \* the wall clock, seconds since the coordinator was constructed
    data,             \* coordinator.data: the snapshot returned by the last tick
    threshold_state,  \* the raw classification computed by the last valid tick (a local of the tick)
    start_run_since,  \* history: when the current unbroken run of Start-classified ticks began
    last_valid,       \* history: the coordinator as the last valid tick (or __init__) left it
    energy_sensor,    \* the WattWatcherEnergySensor entity listening to the coordinator
    cycle_sensor,     \* the WattWatcherCycleDurationSensor entity listening to the coordinator
    entry,            \* the data of the config entry the coordinator was set up from
    flow,             \* the configuration flow in progress (setup or options), if any
    script            \* what drives the sensor: arbitrary readings, or a scripted feed

vars == <<coordinator, now, data, threshold_state, start_run_since, last_valid,
          energy_sensor, cycle_sensor, entry, flow, script>>

---------------------------------------------------------------------------
(* Bounds of the model *)

\* the clock stops here
MaxTime == 11
\* the longest gap between two ticks (late or skipped ticks)
MaxStep == 2
\* classifier inputs: longest state list, largest threshold
MaxStates == 2
MaxThreshold == 2
\* the clock of the configuration flows stops here
MaxFlowTime == 2

---------------------------------------------------------------------------
(* Values *)

\* Python's None, for the optional timestamps
None == -1

COMPARISON_GREATER == "greater"
COMPARISON_LESS == "less"

NoData == [current_state |-> "none"]

Rule(name, threshold, comparison) ==
    [name |-> name, threshold |-> threshold, comparison |-> comparison]

\* delays in seconds, scaled down so that every timer can expire within MaxTime
Timings ==
    { [active_delay |-> 2, finished_delay |-> 2, idle_delay |-> 3, scan_interval |-> 1],
      [active_delay |-> 1, finished_delay |-> 3, idle_delay |-> 2, scan_interval |-> 1] }

\* state lists the engine is run with
StateLists ==
    { << Rule("run", 50, COMPARISON_GREATER), Rule("bitti", 5, COMPARISON_LESS) >>,
      << Rule("run", 50, COMPARISON_GREATER), Rule("done", 5, COMPARISON_LESS) >>,
      << Rule("run", 50, COMPARISON_GREATER), Rule("mid", 20, COMPARISON_GREATER),
         Rule("bitti", 5, COMPARISON_LESS) >> }

\* float(state.state) for the texts the model feeds; any other text raises ValueError
FloatTable ==
    ("0" :> 0) @@ ("1" :> 1) @@ ("2" :> 2) @@ ("3" :> 3) @@ ("4" :> 4) @@
    ("10" :> 10) @@ ("30" :> 30) @@ ("80" :> 80)

float(text) == FloatTable[text]

\* what the power sensor's state text can be under arbitrary readings
SensorTexts == {"0", "2", "10", "30", "80", "unknown", "unavailable", "abc"}

\* hass.states.get(power_entity): no state object, or one with a state text
SensorStates ==
    {[exists |-> FALSE, state |-> ""]} \cup {[exists |-> TRUE, state |-> s] : s \in SensorTexts}

---------------------------------------------------------------------------
(* WattWatcherCoordinator *)

\* __init__
construct(states, timing) ==
    [ current_power |-> 0,
      current_state |-> "idle",
      state_start_time |-> 0,
      cycle_start_time |-> None,
      active_timer_start |-> None,
      finished_timer_start |-> None,
      bitti_start_time |-> None,
      scan_interval |-> timing.scan_interval,
      active_delay |-> timing.active_delay,
      finished_delay |-> timing.finished_delay,
      idle_delay |-> timing.idle_delay,
      states_config |-> states,
      has_bitti_state |-> \E i \in 1..Len(states) : states[i].name = "bitti" ]

\* list.sort(key=threshold): stable, ascending
RECURSIVE sort_ascending(_)
sort_ascending(states) ==
    IF states = <<>> THEN <<>>
    ELSE LET x == states[Len(states)]
             rest == sort_ascending(SubSeq(states, 1, Len(states) - 1))
             k == Cardinality({i \in 1..Len(rest) : rest[i].threshold <= x.threshold})
         IN SubSeq(rest, 1, k) \o <<x>> \o SubSeq(rest, k + 1, Len(rest))

\* a slip: reverse=True forgotten
sort_descending_not_reversed(states) == sort_ascending(states)

\* list.sort(key=threshold, reverse=True): stable, descending
RECURSIVE sort_descending(_)
sort_descending(states) ==
    IF states = <<>> THEN <<>>
    ELSE LET x == states[Len(states)]
             rest == sort_descending(SubSeq(states, 1, Len(states) - 1))
             k == Cardinality({i \in 1..Len(rest) : rest[i].threshold >= x.threshold})
         IN SubSeq(rest, 1, k) \o <<x>> \o SubSeq(rest, k + 1, Len(rest))

IsGreater(state) == state.comparison = COMPARISON_GREATER
IsLess(state) == state.comparison = COMPARISON_LESS

greater_states(states) == sort_descending(SelectSeq(states, IsGreater))
less_states(states) == sort_ascending(SelectSeq(states, IsLess))

\* a slip: >= for >
greater_matches_inclusive(power, state) == power >= state.threshold

\* the comparisons of the two loops
greater_matches(power, state) == power > state.threshold
less_matches(power, state) == power < state.threshold

\* "for state in states: if <matches>: return state": the first match, or 0
first_greater(states, power) ==
    LET hits == {i \in 1..Len(states) : greater_matches(power, states[i])}
    IN IF hits = {} THEN 0 ELSE CHOOSE i \in hits : \A j \in hits : i <= j

first_less(states, power) ==
    LET hits == {i \in 1..Len(states) : less_matches(power, states[i])}
    IN IF hits = {} THEN 0 ELSE CHOOSE i \in hits : \A j \in hits : i <= j

\* a slip: the low-power fall-back taken whether or not "bitti" is configured
no_match_state_ignoring_bitti(self, power) ==
    IF power < 1 THEN "idle" ELSE "unknown"

\* the fall-through when no rule matches
no_match_state(self, power) ==
    IF ~self.has_bitti_state /\ power < 1 THEN "idle" ELSE "unknown"

\* a slip: the "less" rules tried before the "greater" rules
determine_state_less_first(self, power) ==
    LET gs == greater_states(self.states_config)
        ls == less_states(self.states_config)
        g == first_greater(gs, power)
        l == first_less(ls, power)
    IN IF l # 0 THEN ls[l].name
       ELSE IF g # 0 THEN gs[g].name
       ELSE no_match_state(self, power)

determine_state_by_thresholds(self, power) ==
    LET gs == greater_states(self.states_config)
        ls == less_states(self.states_config)
        g == first_greater(gs, power)
        l == first_less(ls, power)
    IN IF g # 0 THEN gs[g].name
       ELSE IF l # 0 THEN ls[l].name
       ELSE no_match_state(self, power)

\* a slip: the running second not counted
get_timer_duration_less_one(timer_start, t) ==
    IF timer_start # None THEN t - timer_start - 1 ELSE 0

get_timer_duration(timer_start, t) ==
    IF timer_start # None THEN t - timer_start ELSE 0

\* the value returned together with the coordinator as the call left it
Result(self, ret) == [self |-> self, ret |-> ret]

\* a slip: an active state adopting the classification even when it is "unknown"
apply_delays_adopts_unknown(self, state, t) ==
    IF self.current_state = "idle" THEN
        IF state # "idle" /\ state # "unknown" THEN
            LET started == IF self.active_timer_start = None THEN t
                           ELSE self.active_timer_start
            IN IF get_timer_duration(started, t) >= self.active_delay
               THEN Result([self EXCEPT !.active_timer_start = None], state)
               ELSE Result([self EXCEPT !.active_timer_start = started], "idle")
        ELSE Result([self EXCEPT !.active_timer_start = None], "idle")
    ELSE IF self.current_state \notin {"idle", "bitti", "unknown"} THEN
        IF self.has_bitti_state /\ state = "bitti" THEN
            LET started == IF self.finished_timer_start = None THEN t
                           ELSE self.finished_timer_start
            IN IF get_timer_duration(started, t) >= self.finished_delay
               THEN Result([self EXCEPT !.finished_timer_start = None,
                                        !.bitti_start_time = t], "bitti")
               ELSE Result([self EXCEPT !.finished_timer_start = started],
                           self.current_state)
        ELSE Result([self EXCEPT !.finished_timer_start = None], state)
    ELSE Result(self, IF state # "unknown" THEN state ELSE self.current_state)

\* a slip: the active timer left running when Idle is left
apply_delays_keeps_active_timer(self, state, t) ==
    IF self.current_state = "idle" THEN
        IF state # "idle" /\ state # "unknown" THEN
            LET started == IF self.active_timer_start = None THEN t
                           ELSE self.active_timer_start
            IN IF get_timer_duration(started, t) >= self.active_delay
               THEN Result([self EXCEPT !.active_timer_start = started], state)
               ELSE Result([self EXCEPT !.active_timer_start = started], "idle")
        ELSE Result([self EXCEPT !.active_timer_start = None], "idle")
    ELSE IF self.current_state \notin {"idle", "bitti", "unknown"} THEN
        IF self.has_bitti_state /\ state = "bitti" THEN
            LET started == IF self.finished_timer_start = None THEN t
                           ELSE self.finished_timer_start
            IN IF get_timer_duration(started, t) >= self.finished_delay
               THEN Result([self EXCEPT !.finished_timer_start = None,
                                        !.bitti_start_time = t], "bitti")
               ELSE Result([self EXCEPT !.finished_timer_start = started],
                           self.current_state)
        ELSE Result([self EXCEPT !.finished_timer_start = None],
                    IF state # "unknown" THEN state ELSE self.current_state)
    ELSE Result(self, IF state # "unknown" THEN state ELSE self.current_state)

\* a slip: the finished timer left running when another active state is adopted
apply_delays_keeps_finished_timer(self, state, t) ==
    IF self.current_state = "idle" THEN
        IF state # "idle" /\ state # "unknown" THEN
            LET started == IF self.active_timer_start = None THEN t
                           ELSE self.active_timer_start
            IN IF get_timer_duration(started, t) >= self.active_delay
               THEN Result([self EXCEPT !.active_timer_start = None], state)
               ELSE Result([self EXCEPT !.active_timer_start = started], "idle")
        ELSE Result([self EXCEPT !.active_timer_start = None], "idle")
    ELSE IF self.current_state \notin {"idle", "bitti", "unknown"} THEN
        IF self.has_bitti_state /\ state = "bitti" THEN
            LET started == IF self.finished_timer_start = None THEN t
                           ELSE self.finished_timer_start
            IN IF get_timer_duration(started, t) >= self.finished_delay
               THEN Result([self EXCEPT !.finished_timer_start = None,
                                        !.bitti_start_time = t], "bitti")
               ELSE Result([self EXCEPT !.finished_timer_start = started],
                           self.current_state)
        ELSE IF state # "unknown"
             THEN Result(self, state)
             ELSE Result([self EXCEPT !.finished_timer_start = None], self.current_state)
    ELSE Result(self, IF state # "unknown" THEN state ELSE self.current_state)

\* a slip: the finished timer left running over an "unknown" classification
apply_delays_unknown_keeps_timer(self, state, t) ==
    IF self.current_state = "idle" THEN
        IF state # "idle" /\ state # "unknown" THEN
            LET started == IF self.active_timer_start = None THEN t
                           ELSE self.active_timer_start
            IN IF get_timer_duration(started, t) >= self.active_delay
               THEN Result([self EXCEPT !.active_timer_start = None], state)
               ELSE Result([self EXCEPT !.active_timer_start = started], "idle")
        ELSE Result([self EXCEPT !.active_timer_start = None], "idle")
    ELSE IF self.current_state \notin {"idle", "bitti", "unknown"} THEN
        IF self.has_bitti_state /\ state = "bitti" THEN
            LET started == IF self.finished_timer_start = None THEN t
                           ELSE self.finished_timer_start
            IN IF get_timer_duration(started, t) >= self.finished_delay
               THEN Result([self EXCEPT !.finished_timer_start = None,
                                        !.bitti_start_time = t], "bitti")
               ELSE Result([self EXCEPT !.finished_timer_start = started],
                           self.current_state)
        ELSE IF state # "unknown"
             THEN Result([self EXCEPT !.finished_timer_start = None], state)
             ELSE Result(self, self.current_state)
    ELSE Result(self, IF state # "unknown" THEN state ELSE self.current_state)

\* a slip: Idle left for an "unknown" classification
apply_delays_idle_adopts_unknown(self, state, t) ==
    IF self.current_state = "idle" THEN
        IF state # "idle" THEN
            LET started == IF self.active_timer_start = None THEN t
                           ELSE self.active_timer_start
            IN IF get_timer_duration(started, t) >= self.active_delay
               THEN Result([self EXCEPT !.active_timer_start = None], state)
               ELSE Result([self EXCEPT !.active_timer_start = started], "idle")
        ELSE Result([self EXCEPT !.active_timer_start = None], "idle")
    ELSE IF self.current_state \notin {"idle", "bitti", "unknown"} THEN
        IF self.has_bitti_state /\ state = "bitti" THEN
            LET started == IF self.finished_timer_start = None THEN t
                           ELSE self.finished_timer_start
            IN IF get_timer_duration(started, t) >= self.finished_delay
               THEN Result([self EXCEPT !.finished_timer_start = None,
                                        !.bitti_start_time = t], "bitti")
               ELSE Result([self EXCEPT !.finished_timer_start = started],
                           self.current_state)
        ELSE Result([self EXCEPT !.finished_timer_start = None],
                    IF state # "unknown" THEN state ELSE self.current_state)
    ELSE Result(self, IF state # "unknown" THEN state ELSE self.current_state)

apply_delays(self, state, t) ==
    IF self.current_state = "idle" THEN
        IF state # "idle" /\ state # "unknown" THEN
            LET started == IF self.active_timer_start = None THEN t
                           ELSE self.active_timer_start
            IN IF get_timer_duration(started, t) >= self.active_delay
               THEN Result([self EXCEPT !.active_timer_start = None], state)
               ELSE Result([self EXCEPT !.active_timer_start = started], "idle")
        ELSE Result([self EXCEPT !.active_timer_start = None], "idle")
    ELSE IF self.current_state \notin {"idle", "bitti", "unknown"} THEN
        IF self.has_bitti_state /\ state = "bitti" THEN
            LET started == IF self.finished_timer_start = None THEN t
                           ELSE self.finished_timer_start
            IN IF get_timer_duration(started, t) >= self.finished_delay
               THEN Result([self EXCEPT !.finished_timer_start = None,
                                        !.bitti_start_time = t], "bitti")
               ELSE Result([self EXCEPT !.finished_timer_start = started],
                           self.current_state)
        ELSE Result([self EXCEPT !.finished_timer_start = None],
                    IF state # "unknown" THEN state ELSE self.current_state)
    ELSE Result(self, IF state # "unknown" THEN state ELSE self.current_state)

check_idle_delay(self, proposed_state, t) ==
    IF self.current_state = "bitti" THEN
        LET started == IF self.bitti_start_time = None THEN t ELSE self.bitti_start_time
            bitti_duration == t - started
        IN IF bitti_duration >= self.idle_delay
           THEN Result([self EXCEPT !.bitti_start_time = None], "idle")
           ELSE Result([self EXCEPT !.bitti_start_time = started], "bitti")
    ELSE IF proposed_state # "bitti"
         THEN Result([self EXCEPT !.bitti_start_time = None], proposed_state)
         ELSE Result(self, proposed_state)

\* a slip: the cycle restarted at every change into an active state
on_state_change_restarts_cycle(self, new_state, t) ==
    LET old_state == self.current_state
        changed == [self EXCEPT !.current_state = new_state, !.state_start_time = t]
    IN IF new_state \notin {"idle", "bitti", "unknown"}
       THEN [changed EXCEPT !.cycle_start_time = t]
       ELSE IF old_state \notin {"idle", "bitti", "unknown"} /\ new_state \in {"idle", "bitti"}
            THEN [changed EXCEPT !.cycle_start_time = None]
            ELSE changed

\* a slip: the cycle start not recorded when Idle is left
on_state_change_no_cycle_start(self, new_state, t) ==
    LET old_state == self.current_state
        changed == [self EXCEPT !.current_state = new_state, !.state_start_time = t]
    IN IF old_state \notin {"idle", "bitti", "unknown"} /\ new_state \in {"idle", "bitti"}
       THEN [changed EXCEPT !.cycle_start_time = None]
       ELSE changed

\* a slip: the start of the state not recorded at a change
on_state_change_keeps_start_time(self, new_state, t) ==
    LET old_state == self.current_state
        changed == [self EXCEPT !.current_state = new_state]
    IN IF old_state = "idle" /\ new_state \notin {"idle", "bitti", "unknown"}
       THEN [changed EXCEPT !.cycle_start_time = t]
       ELSE IF old_state \notin {"idle", "bitti", "unknown"} /\ new_state \in {"idle", "bitti"}
            THEN [changed EXCEPT !.cycle_start_time = None]
            ELSE changed

on_state_change(self, new_state, t) ==
    LET old_state == self.current_state
        changed == [self EXCEPT !.current_state = new_state, !.state_start_time = t]
    IN IF old_state = "idle" /\ new_state \notin {"idle", "bitti", "unknown"}
       THEN [changed EXCEPT !.cycle_start_time = t]
       ELSE IF old_state \notin {"idle", "bitti", "unknown"} /\ new_state \in {"idle", "bitti"}
            THEN [changed EXCEPT !.cycle_start_time = None]
            ELSE changed

get_state_duration(self, t) == t - self.state_start_time

\* a slip: the cycle measured from the start of the current state
get_cycle_duration_since_state_start(self, t) ==
    IF self.cycle_start_time # None /\ self.current_state \notin {"idle", "bitti", "unknown"}
    THEN t - self.state_start_time
    ELSE 0

get_cycle_duration(self, t) ==
    IF self.cycle_start_time # None /\ self.current_state \notin {"idle", "bitti", "unknown"}
    THEN t - self.cycle_start_time
    ELSE 0

timing_settings(self) ==
    [ active_delay |-> self.active_delay,
      finished_delay |-> self.finished_delay,
      idle_delay |-> self.idle_delay ]

\* a slip: the error data echoing the last power
create_error_data_last_power(self) ==
    [ current_power |-> self.current_power,
      current_state |-> "error",
      state_duration |-> 0,
      cycle_duration |-> 0,
      is_active |-> FALSE,
      bitti_duration |-> 0,
      idle_remaining |-> 0,
      timing_settings |-> timing_settings(self),
      states_config |-> self.states_config,
      timers |-> [active_timer |-> 0, finished_timer |-> 0] ]

create_error_data(self) ==
    [ current_power |-> 0,
      current_state |-> "error",
      state_duration |-> 0,
      cycle_duration |-> 0,
      is_active |-> FALSE,
      bitti_duration |-> 0,
      idle_remaining |-> 0,
      timing_settings |-> timing_settings(self),
      states_config |-> self.states_config,
      timers |-> [active_timer |-> 0, finished_timer |-> 0] ]

\* the dictionary a valid tick returns
update_data(self, t) ==
    LET bitti_duration ==
            IF self.current_state = "bitti" /\ self.bitti_start_time # None
            THEN t - self.bitti_start_time ELSE 0
        remaining == self.idle_delay - bitti_duration
    IN [ current_power |-> self.current_power,
         current_state |-> self.current_state,
         state_duration |-> get_state_duration(self, t),
         cycle_duration |-> get_cycle_duration(self, t),
         is_active |-> self.current_state \notin {"idle", "bitti", "unknown"},
         bitti_duration |-> bitti_duration,
         idle_remaining |-> IF self.current_state = "bitti"
                            THEN (IF remaining > 0 THEN remaining ELSE 0) ELSE 0,
         timing_settings |-> timing_settings(self),
         states_config |-> self.states_config,
         timers |-> [ active_timer |-> get_timer_duration(self.active_timer_start, t),
                      finished_timer |-> get_timer_duration(self.finished_timer_start, t) ] ]

\* the sensor state makes the tick return the error data
reading_fails(state) ==
    \/ ~state.exists
    \/ state.state \in {"unknown", "unavailable"}
    \/ state.state \notin DOMAIN FloatTable

\* the coordinator after a tick that read `power` at time t
tick_state(self, power, t) ==
    LET read == [self EXCEPT !.current_power = power]
        delayed == apply_delays(read, determine_state_by_thresholds(read, power), t)
        checked == check_idle_delay(delayed.self, delayed.ret, t)
    IN IF checked.ret # checked.self.current_state
       THEN on_state_change(checked.self, checked.ret, t)
       ELSE checked.self

\* a slip: the error path storing the error state in the coordinator
error_tick_state_marks_error(self, state) == [self EXCEPT !.current_state = "error"]

\* a slip: the error path stopping the running timers
error_tick_state_stops_timers(self, state) ==
    [self EXCEPT !.active_timer_start = None, !.finished_timer_start = None]

\* the coordinator after a tick that found the sensor in `state`
error_tick_state(self, state) == self

\* the designated Start and Finish states of the specification: the first and the
\* last configured state (the code itself looks for the name "bitti")
StartName(self) ==
    IF Len(self.states_config) > 0 THEN self.states_config[1].name ELSE "unknown"

FinishName(self) ==
    IF Len(self.states_config) > 0
    THEN self.states_config[Len(self.states_config)].name ELSE "unknown"

---------------------------------------------------------------------------
(* WattWatcherEnergySensor (sensor.py) *)

STATE_OFF == "off"
STATE_RUNNING == "running"
STATE_FINISHED == "finished"

\* dict.get(key, default)
data_get(d, key, default) == IF key \in DOMAIN d THEN d[key] ELSE default

\* __init__ / async_added_to_hass at time t
energy_sensor_init(t) == [energy_this_cycle |-> 0, last_update_time |-> t]

\* a slip: the energy of the readings added up on every tick and never reset
energy_handle_update_without_reset(sensor, d, t) ==
    [ energy_this_cycle |-> sensor.energy_this_cycle
                            + data_get(d, "current_power", 0) * (t - sensor.last_update_time),
      last_update_time |-> t ]

\* _handle_coordinator_update at time t, the coordinator's data being d.
\* energy_this_cycle is kept in watt-seconds (the code's watt-hours times 3600).
energy_handle_coordinator_update(sensor, d, t) ==
    LET time_diff == t - sensor.last_update_time
        avg_power == data_get(d, "avg_power", 0)
        energy_increment == avg_power * time_diff
        added == IF data_get(d, "state", "None") = STATE_RUNNING
                 THEN sensor.energy_this_cycle + energy_increment
                 ELSE sensor.energy_this_cycle
        current_state == data_get(d, "state", "unknown")
    IN [ energy_this_cycle |-> IF current_state \notin {STATE_RUNNING, "unknown"}
                               THEN 0 ELSE added,
         last_update_time |-> t ]

---------------------------------------------------------------------------
(* WattWatcherCycleDurationSensor (sensor.py) *)

\* __init__, with no earlier state to restore
cycle_sensor_init ==
    [cycle_start_time |-> None, last_cycle_duration |-> 0, total_cycles |-> 0]

\* __init__ / async_added_to_hass of the entity set up again after a reload: the
\* counters are restored from the attributes the earlier entity last wrote
cycle_sensor_restore(sensor) ==
    [cycle_start_time |-> None,
     last_cycle_duration |-> sensor.last_cycle_duration,
     total_cycles |-> sensor.total_cycles]

\* _handle_coordinator_update at time t, the coordinator's data being d
cycle_handle_coordinator_update(sensor, d, t) ==
    LET current_state == data_get(d, "state", "unknown")
    IN IF current_state = STATE_RUNNING
       THEN (IF sensor.cycle_start_time = None
             THEN [sensor EXCEPT !.cycle_start_time = t]
             ELSE sensor)
       ELSE IF sensor.cycle_start_time # None /\ current_state \in {STATE_FINISHED, STATE_OFF}
            THEN [ cycle_start_time |-> None,
                   last_cycle_duration |-> t - sensor.cycle_start_time,
                   total_cycles |-> sensor.total_cycles + 1 ]
            ELSE sensor

---------------------------------------------------------------------------
(* WattWatcherActiveSensor (binary_sensor.py) *)

\* the remaining times among extra_state_attributes, computed from the data d
extra_state_attributes(d) ==
    LET timing == data_get(d, "timing_settings", <<>>)
        timers == data_get(d, "timers", <<>>)
        idle_remaining == data_get(d, "idle_remaining", 0)
        active_timer == data_get(timers, "active_timer", 0)
        finished_timer == data_get(timers, "finished_timer", 0)
        active_delay == data_get(timing, "active_delay", 60)
        finished_delay == data_get(timing, "finished_delay", 300)
        max0(x) == IF x > 0 THEN x ELSE 0
    IN [ active_in |-> IF active_timer < active_delay
                       THEN max0(active_delay - active_timer) ELSE 0,
         finished_in |-> IF finished_timer < finished_delay
                         THEN max0(finished_delay - finished_timer) ELSE 0,
         idle_in |-> idle_remaining ]

---------------------------------------------------------------------------
(* One tick: the coordinator's refresh, then its listeners *)

\* _async_update_data, run at time t
async_update_data(state, t) ==
    /\ now' = t
    /\ IF reading_fails(state)
       THEN /\ coordinator' = error_tick_state(coordinator, state)
            /\ data' = create_error_data(coordinator')
            /\ UNCHANGED <<threshold_state, start_run_since, last_valid>>
       ELSE LET power == float(state.state)
            IN /\ coordinator' = tick_state(coordinator, power, t)
               /\ data' = update_data(coordinator', t)
               /\ threshold_state' = determine_state_by_thresholds(
                                         [coordinator EXCEPT !.current_power = power], power)
               /\ start_run_since' =
                      IF threshold_state' # StartName(coordinator) THEN None
                      ELSE IF start_run_since = None THEN t ELSE start_run_since
               /\ last_valid' = coordinator'
    /\ energy_sensor' = energy_handle_coordinator_update(energy_sensor, data', t)
    /\ cycle_sensor' = cycle_handle_coordinator_update(cycle_sensor, data', t)
    /\ UNCHANGED <<entry, flow, script>>

\* lines 88-92 alone: read the power and classify it
classify_reading(state) ==
    /\ ~reading_fails(state)
    /\ coordinator' = [coordinator EXCEPT !.current_power = float(state.state)]
    /\ threshold_state' = determine_state_by_thresholds(coordinator', float(state.state))
    /\ UNCHANGED <<now, data, start_run_since, last_valid, energy_sensor, cycle_sensor,
                   entry, flow, script>>

---------------------------------------------------------------------------
(* The engine under arbitrary readings and tick times *)

Free == [name |-> "free", switch |-> 0, first |-> "", until |-> 0]

Tick ==
    /\ script.name = "free"
    /\ \E state \in SensorStates, dt \in 1..MaxStep :
           /\ now + dt <= MaxTime
           /\ async_update_data(state, now + dt)

\* no configuration flow is open
NoFlow ==
    [kind |-> "none", step |-> "", state_names |-> <<>>, states |-> <<>>,
     shares_entry_states |-> FALSE]

\* entry.data as the coordinator c read it in __init__
entry_data(c) ==
    [ states |-> c.states_config,
      active_delay |-> c.active_delay,
      finished_delay |-> c.finished_delay,
      idle_delay |-> c.idle_delay,
      scan_interval |-> c.scan_interval ]

Start(c, s) ==
    /\ coordinator = c
    /\ now = 0
    /\ data = NoData
    /\ threshold_state = "none"
    /\ start_run_since = None
    /\ last_valid = c
    /\ energy_sensor = energy_sensor_init(0)
    /\ cycle_sensor = cycle_sensor_init
    /\ entry = entry_data(c)
    /\ flow = NoFlow
    /\ script = s

Init ==
    \E states \in StateLists, timing \in Timings : Start(construct(states, timing), Free)

Next == Tick

Spec == Init /\ [][Next]_vars

---------------------------------------------------------------------------
(* The classifier alone, over every short state list and every reading *)

ScenarioStates ==
    << Rule("run", 50, COMPARISON_GREATER), Rule("done", 5, COMPARISON_LESS) >>

ScenarioTiming ==
    [active_delay |-> 60, finished_delay |-> 300, idle_delay |-> 600, scan_interval |-> 10]

ClassifierNames == {"run", "mid", "bitti"}

ClassifierRules ==
    { Rule(n, th, c) : n \in ClassifierNames, th \in 0..MaxThreshold,
                       c \in {COMPARISON_GREATER, COMPARISON_LESS} }

ClassifierLists == UNION { [1..n -> ClassifierRules] : n \in 0..MaxStates }

ClassifierReadings ==
    { [exists |-> TRUE, state |-> s] :
          s \in {x \in DOMAIN FloatTable : FloatTable[x] <= MaxThreshold + 1} }

ClassifierScript == [name |-> "classifier", switch |-> 0, first |-> "", until |-> 0]

Classify ==
    /\ script.name = "classifier"
    /\ \E state \in ClassifierReadings : classify_reading(state)

InitClassifier ==
    \E states \in ClassifierLists :
        Start(construct(states, ScenarioTiming), ClassifierScript)

NextClassifier == Classify

SpecClassifier == InitClassifier /\ [][NextClassifier]_vars

---------------------------------------------------------------------------
(* The two scenarios: states [run > 50, done < 5], delays 60 / 300 / 600 s, *)
(* one tick every 10 s                                                      *)

\* A: 80 W until `switch`, 2 W from then on, for 310 s and 610 s more.
\* B: the power flips between 80 W and 2 W every `switch` seconds (a period of
\*    20 s or 40 s, shorter than the active delay), starting with `first`.
Scripts ==
    { [name |-> "A", switch |-> sw, first |-> "80", until |-> sw + 310 + 610] :
          sw \in {80, 90, 100} }
    \cup
    { [name |-> "B", switch |-> half, first |-> f, until |-> 600] :
          half \in {10, 20}, f \in {"80", "2"} }

Other(text) == IF text = "80" THEN "2" ELSE "80"

Feed(s, t) ==
    IF s.name = "A"
    THEN (IF t < s.switch THEN "80" ELSE "2")
    ELSE (IF (t \div s.switch) % 2 = 0 THEN s.first ELSE Other(s.first))

ScenarioTick ==
    /\ script.name \in {"A", "B"}
    /\ now + coordinator.scan_interval <= script.until
    /\ async_update_data([exists |-> TRUE,
                          state |-> Feed(script, now + coordinator.scan_interval)],
                         now + coordinator.scan_interval)

InitScenario ==
    \E s \in Scripts : Start(construct(ScenarioStates, ScenarioTiming), s)

NextScenario == ScenarioTick

SpecScenario == InitScenario /\ [][NextScenario]_vars

---------------------------------------------------------------------------
(* The configuration flows (config_flow.py) and the entry set-up (__init__.py) *)

\* no entry has been created, no coordinator constructed
NoEntry == [states |-> <<>>, active_delay |-> 0, finished_delay |-> 0,
            idle_delay |-> 0, scan_interval |-> 0]
NoCoordinator == [current_state |-> "none"]

\* [name.strip() for name in user_input["state_names"] if name.strip()]
state_names_of(input) == SelectSeq(input, LAMBDA name : name # "")

\* WattWatcherConfigFlow after async_step_user: the form of the state names is shown
config_flow_init ==
    [kind |-> "config", step |-> "state_names", state_names |-> <<>>, states |-> <<>>,
     shares_entry_states |-> FALSE]

\* WattWatcherConfigFlow.async_step_state_names with the names typed
config_state_names(f, input) ==
    LET state_names == state_names_of(input)
    IN IF state_names # <<>>
       THEN [f EXCEPT !.state_names = state_names, !.step = "state_thresholds"]
       ELSE f

\* WattWatcherConfigFlow.async_step_state_thresholds: input[i] holds the threshold
\* and the comparison chosen for the i-th name
config_state_thresholds(f, input) ==
    LET states == [i \in 1..Len(f.state_names) |->
                       Rule(f.state_names[i], input[i].threshold, input[i].comparison)]
    IN IF states = <<>> THEN f
       ELSE [f EXCEPT !.states = states, !.step = "timing"]

\* WattWatcherOptionsFlow.__init__ and async_step_init: self.states is the very list
\* of the entry's data (dict(config_entry.data) copies the top level only)
options_flow_init(e) ==
    [kind |-> "options", step |-> "state_names",
     state_names |-> [i \in 1..Len(e.states) |-> e.states[i].name],
     states |-> e.states,
     shares_entry_states |-> TRUE]

\* a slip: the names written into the states of the entry instead of into copies
options_state_names_in_place(f, input) ==
    LET state_names == state_names_of(input)
    IN IF state_names # <<>>
       THEN [f EXCEPT !.states = [i \in 1..Len(state_names) |->
                                     IF i <= Len(f.states)
                                     THEN [f.states[i] EXCEPT !.name = state_names[i]]
                                     ELSE Rule(state_names[i], 0, COMPARISON_GREATER)],
                      !.state_names = state_names,
                      !.step = "state_thresholds"]
       ELSE f

\* WattWatcherOptionsFlow.async_step_state_names: a new list of new dictionaries
options_state_names(f, input) ==
    LET state_names == state_names_of(input)
    IN IF state_names # <<>>
       THEN [f EXCEPT !.states = [i \in 1..Len(state_names) |->
                                     IF i <= Len(f.states)
                                     THEN [f.states[i] EXCEPT !.name = state_names[i]]
                                     ELSE Rule(state_names[i], 0, COMPARISON_GREATER)],
                      !.state_names = state_names,
                      !.step = "state_thresholds",
                      !.shares_entry_states = FALSE]
       ELSE f

\* WattWatcherOptionsFlow.async_step_state_thresholds: self.states[i].update(...) and
\* self.states.append(...), both in place
options_state_thresholds(f, input) ==
    [f EXCEPT !.states = [i \in 1..Len(f.state_names) |->
                             IF i <= Len(f.states)
                             THEN [f.states[i] EXCEPT !.threshold = input[i].threshold,
                                                      !.comparison = input[i].comparison]
                             ELSE Rule(f.state_names[i], input[i].threshold,
                                       input[i].comparison)],
              !.step = "timing"]

\* the data of the entry made of the states of the flow and the timing typed
new_data(f, timing) ==
    [ states |-> f.states,
      active_delay |-> timing.active_delay,
      finished_delay |-> timing.finished_delay,
      idle_delay |-> timing.idle_delay,
      scan_interval |-> timing.scan_interval ]

\* what the user can type in the forms
NameInputs == { <<"">>, <<"run">>, <<"run", "bitti">>, <<"run", "", "done">> }
ThresholdChoices ==
    { [threshold |-> 50, comparison |-> COMPARISON_GREATER],
      [threshold |-> 5, comparison |-> COMPARISON_LESS],
      [threshold |-> 5, comparison |-> COMPARISON_GREATER] }
ThresholdInputs(n) == [1..n -> ThresholdChoices]
FlowReadings == { [exists |-> TRUE, state |-> s] : s \in {"2", "80"} }

\* async_setup_entry for the entry data e at time t: the coordinator is constructed
\* and refreshed once (the sensor being in `state`), then the entities are set up
async_setup_entry(e, state, t) ==
    LET fresh == [construct(e.states, e) EXCEPT !.state_start_time = t]
    IN /\ IF reading_fails(state)
          THEN /\ coordinator' = error_tick_state(fresh, state)
               /\ data' = create_error_data(coordinator')
               /\ threshold_state' = "none"
               /\ start_run_since' = None
               /\ last_valid' = fresh
          ELSE LET power == float(state.state)
               IN /\ coordinator' = tick_state(fresh, power, t)
                  /\ data' = update_data(coordinator', t)
                  /\ threshold_state' = determine_state_by_thresholds(
                                            [fresh EXCEPT !.current_power = power], power)
                  /\ start_run_since' =
                         IF threshold_state' = StartName(fresh) THEN t ELSE None
                  /\ last_valid' = coordinator'
       /\ energy_sensor' = energy_sensor_init(t)
       /\ cycle_sensor' = cycle_sensor_restore(cycle_sensor)

\* the shared list: what the flow writes in place into the states it shares with
\* the entry is written into the entry's data and the coordinator's states_config
WriteThrough ==
    IF flow'.shares_entry_states
    THEN /\ entry' = [entry EXCEPT !.states = flow'.states]
         /\ coordinator' = [coordinator EXCEPT !.states_config = flow'.states]
    ELSE UNCHANGED <<entry, coordinator>>

ConfigStateNames ==
    /\ flow.kind = "config" /\ flow.step = "state_names"
    /\ \E input \in NameInputs : flow' = config_state_names(flow, input)
    /\ UNCHANGED <<coordinator, now, data, threshold_state, start_run_since, last_valid,
                   energy_sensor, cycle_sensor, entry, script>>

ConfigStateThresholds ==
    /\ flow.kind = "config" /\ flow.step = "state_thresholds"
    /\ \E input \in ThresholdInputs(Len(flow.state_names)) :
           flow' = config_state_thresholds(flow, input)
    /\ UNCHANGED <<coordinator, now, data, threshold_state, start_run_since, last_valid,
                   energy_sensor, cycle_sensor, entry, script>>

\* async_step_timing: async_create_entry, then the entry is set up
ConfigTiming ==
    /\ flow.kind = "config" /\ flow.step = "timing"
    /\ \E timing \in Timings, state \in FlowReadings :
           /\ entry' = new_data(flow, timing)
           /\ async_setup_entry(entry', state, now)
    /\ flow' = NoFlow
    /\ UNCHANGED <<now, script>>

OptionsInit ==
    /\ flow.kind = "none"
    /\ coordinator # NoCoordinator
    /\ flow' = options_flow_init(entry)
    /\ UNCHANGED <<coordinator, now, data, threshold_state, start_run_since, last_valid,
                   energy_sensor, cycle_sensor, entry, script>>

OptionsStateNames ==
    /\ flow.kind = "options" /\ flow.step = "state_names"
    /\ \E input \in NameInputs : flow' = options_state_names(flow, input)
    /\ WriteThrough
    /\ UNCHANGED <<now, data, threshold_state, start_run_since, last_valid,
                   energy_sensor, cycle_sensor, script>>

OptionsStateThresholds ==
    /\ flow.kind = "options" /\ flow.step = "state_thresholds"
    /\ \E input \in ThresholdInputs(Len(flow.state_names)) :
           flow' = options_state_thresholds(flow, input)
    /\ WriteThrough
    /\ UNCHANGED <<now, data, threshold_state, start_run_since, last_valid,
                   energy_sensor, cycle_sensor, script>>

\* async_step_timing: async_update_entry; when the data changed, the update listener
\* (async_update_options) reloads the entry: the coordinator and the entities are
\* dropped and the entry is set up again
OptionsTiming ==
    /\ flow.kind = "options" /\ flow.step = "timing"
    /\ \E timing \in Timings, state \in FlowReadings :
           /\ entry' = new_data(flow, timing)
           /\ IF entry' # entry
              THEN async_setup_entry(entry', state, now)
              ELSE UNCHANGED <<coordinator, data, threshold_state, start_run_since,
                               last_valid, energy_sensor, cycle_sensor>>
    /\ flow' = NoFlow
    /\ UNCHANGED <<now, script>>

\* the coordinator ticks on while the options are edited
FlowTick ==
    /\ script.name = "flow"
    /\ coordinator # NoCoordinator
    /\ now + 1 <= MaxFlowTime
    /\ \E state \in FlowReadings : async_update_data(state, now + 1)

FlowScript == [name |-> "flow", switch |-> 0, first |-> "", until |-> 0]

InitFlow ==
    /\ coordinator = NoCoordinator
    /\ now = 0
    /\ data = NoData
    /\ threshold_state = "none"
    /\ start_run_since = None
    /\ last_valid = NoCoordinator
    /\ energy_sensor = energy_sensor_init(0)
    /\ cycle_sensor = cycle_sensor_init
    /\ entry = NoEntry
    /\ flow = config_flow_init
    /\ script = FlowScript

NextFlow ==
    \/ ConfigStateNames
    \/ ConfigStateThresholds
    \/ ConfigTiming
    \/ OptionsInit
    \/ OptionsStateNames
    \/ OptionsStateThresholds
    \/ OptionsTiming
    \/ FlowTick

SpecFlow == InitFlow /\ [][NextFlow]_vars

---------------------------------------------------------------------------
(* Vocabulary of the claims *)

ConfiguredNames(self) ==
    {self.states_config[i].name : i \in 1..Len(self.states_config)}

\* the step is a tick that read a valid power / a tick that returned the error data
IsValidTick == now' # now /\ data'.current_state # "error"
IsErrorTick == now' # now /\ data'.current_state = "error"

\* a classification has been computed
Classified == threshold_state # "none"

Satisfies(power, rule) ==
    \/ rule.comparison = "greater" /\ power > rule.threshold
    \/ rule.comparison = "less" /\ power < rule.threshold

NoRuleSatisfied(self) ==
    \A i \in 1..Len(self.states_config) :
        ~Satisfies(self.current_power, self.states_config[i])

SatisfiedRules(self, comparison) ==
    {i \in 1..Len(self.states_config) :
        /\ self.states_config[i].comparison = comparison
        /\ Satisfies(self.current_power, self.states_config[i])}

\* the reference rule: the satisfied "greater" rules of highest threshold, or, when
\* there is none, the satisfied "less" rules of lowest threshold
ReferenceWinners(self) ==
    LET G == SatisfiedRules(self, "greater")
        L == SatisfiedRules(self, "less")
        th(i) == self.states_config[i].threshold
    IN IF G # {} THEN {i \in G : \A j \in G : th(j) <= th(i)}
       ELSE {i \in L : \A j \in L : th(j) >= th(i)}

Reorderings(n) ==
    {f \in [1..n -> 1..n] : \A i, j \in 1..n : i # j => f[i] # f[j]}

Reordered(self, f) ==
    [self EXCEPT !.states_config = [i \in 1..Len(self.states_config) |-> self.states_config[f[i]]]]

OrderIndependent(self) ==
    \A f \in Reorderings(Len(self.states_config)) :
        determine_state_by_thresholds(Reordered(self, f), self.current_power) = threshold_state

NoSharedThreshold(self) ==
    \A i, j \in 1..Len(self.states_config) :
        (i # j /\ self.states_config[i].comparison = self.states_config[j].comparison)
            => self.states_config[i].threshold # self.states_config[j].threshold

Min(S) == CHOOSE i \in S : \A j \in S : i <= j

---------------------------------------------------------------------------
(* The claims *)

\* C1: after any sequence of ticks the coordinator's current_state is "idle",
\* "unknown" or one of the configured state names.
C1_StateIsAKnownName ==
    coordinator.current_state \in {"idle", "unknown"} \cup ConfiguredNames(coordinator)

C1_Witness ==
    /\ coordinator.current_state = "bitti"
    /\ data.current_state = "error"
    /\ threshold_state = "unknown"

\* C2 (as claimed): in Idle, a valid tick whose classification is not the Start
\* state clears active_timer_start and keeps Idle, and Idle is left only at the end
\* of an unbroken run of Start-classified ticks that spans active_delay.
C2_IdleLeftOnlyAfterStartRun ==
    [][ (coordinator.current_state = "idle" /\ IsValidTick) =>
            /\ threshold_state' # StartName(coordinator) =>
                   /\ coordinator'.active_timer_start = None
                   /\ coordinator'.current_state = "idle"
            /\ coordinator'.current_state # "idle" =>
                   /\ start_run_since' # None
                   /\ now' - start_run_since' >= coordinator.active_delay ]_vars

\* C3 (as claimed): from the Finish state (the last configured state) a valid tick
\* keeps Finish while less than idle_delay has passed since Finish was entered, and
\* goes to Idle at the first tick at which idle_delay has passed.
C3_FinishHeldThenIdle ==
    [][ (coordinator.current_state = FinishName(coordinator) /\ IsValidTick) =>
            IF now' - coordinator.state_start_time >= coordinator.idle_delay
            THEN coordinator'.current_state = "idle"
            ELSE coordinator'.current_state = FinishName(coordinator) ]_vars

\* C4 (as claimed): in scenario B (the power flipping between 80 W and 2 W with a
\* period shorter than active_delay) the state never leaves Idle.
C4_ScenarioBStaysIdle ==
    script.name = "B" => coordinator.current_state = "idle"

\* C5 (as claimed): in scenario A the state is `run` once 80 W has been read for
\* 60 s, stays `run` until 2 W has been read for 300 s, is `done` from then on for
\* 600 s, and is Idle after that.
C5_ScenarioA ==
    script.name = "A" =>
        /\ now < 70 => coordinator.current_state = "idle"
        /\ (70 <= now /\ now < script.switch + 300) => coordinator.current_state = "run"
        /\ (script.switch + 300 <= now /\ now < script.switch + 900) =>
               coordinator.current_state = "done"
        /\ script.switch + 900 <= now => coordinator.current_state = "idle"

\* C6: a tick whose reading is missing, unknown/unavailable or not a number leaves
\* current_state, state_start_time, cycle_start_time, the three timers and
\* current_power as they were.
C6_ErrorTickChangesNothing ==
    [][ IsErrorTick =>
            /\ coordinator'.current_state = coordinator.current_state
            /\ coordinator'.state_start_time = coordinator.state_start_time
            /\ coordinator'.cycle_start_time = coordinator.cycle_start_time
            /\ coordinator'.active_timer_start = coordinator.active_timer_start
            /\ coordinator'.finished_timer_start = coordinator.finished_timer_start
            /\ coordinator'.bitti_start_time = coordinator.bitti_start_time
            /\ coordinator'.current_power = coordinator.current_power ]_vars

C6_Witness ==
    /\ data.current_state = "error"
    /\ coordinator.current_state = "run"
    /\ coordinator.finished_timer_start # None
    /\ coordinator.current_power # 0

\* C7: a tick with a missing, unavailable or malformed reading returns the safe
\* default data (power 0, not active, durations and timers 0, the configuration
\* echoed), and the valid tick that follows it gives what it would have given from
\* the state the last valid tick left.
C7_ErrorTickReturnsDefaults ==
    [][ /\ IsErrorTick =>
              /\ data'.current_power = 0
              /\ data'.is_active = FALSE
              /\ data'.state_duration = 0
              /\ data'.cycle_duration = 0
              /\ data'.bitti_duration = 0
              /\ data'.idle_remaining = 0
              /\ data'.timers = [active_timer |-> 0, finished_timer |-> 0]
              /\ data'.states_config = coordinator.states_config
              /\ data'.timing_settings =
                     [ active_delay |-> coordinator.active_delay,
                       finished_delay |-> coordinator.finished_delay,
                       idle_delay |-> coordinator.idle_delay ]
        /\ (data.current_state = "error" /\ IsValidTick) =>
              coordinator' = tick_state(last_valid, data'.current_power, now') ]_vars

C7_Witness ==
    /\ data.current_state = "error"
    /\ coordinator.current_state \notin {"idle", "bitti"}
    /\ coordinator.current_power # 0
    /\ now > coordinator.state_start_time

\* C8 (as claimed): the classifier returns "unknown" for every reading that
\* satisfies no configured rule.
C8_NoMatchIsUnknown ==
    (Classified /\ NoRuleSatisfied(coordinator)) => threshold_state = "unknown"

\* C8 (amended): for a reading that satisfies no configured rule the classifier
\* returns "unknown", except that it returns "idle" when the reading is below 1 W
\* and no state named "bitti" is configured.
C8_NoMatchIsUnknownOrLowIdle ==
    (Classified /\ NoRuleSatisfied(coordinator)) =>
        threshold_state =
            IF coordinator.current_power < 1 /\ "bitti" \notin ConfiguredNames(coordinator)
            THEN "idle" ELSE "unknown"

C8_Witness ==
    /\ Classified
    /\ NoRuleSatisfied(coordinator)
    /\ Len(coordinator.states_config) = 2
    /\ threshold_state = "idle"

\* C9 (as claimed): the result is a rule the reference rule selects, and no
\* reordering of the configured states changes it.
C9_ReferenceRuleAnyOrder ==
    Classified =>
        /\ ReferenceWinners(coordinator) # {} =>
               \E i \in ReferenceWinners(coordinator) :
                   threshold_state = coordinator.states_config[i].name
        /\ OrderIndependent(coordinator)

\* C9 (amended): the result is the rule the reference rule selects, the one
\* configured first when several rules of the winning comparison share the winning
\* threshold; reordering the states does not change the result when no two rules of
\* one comparison share a threshold.
C9_ReferenceRuleFirstOfTies ==
    Classified =>
        /\ ReferenceWinners(coordinator) # {} =>
               threshold_state =
                   coordinator.states_config[Min(ReferenceWinners(coordinator))].name
        /\ NoSharedThreshold(coordinator) => OrderIndependent(coordinator)

C9_Witness ==
    /\ Classified
    /\ Len(coordinator.states_config) = 2
    /\ coordinator.states_config[1].comparison = "greater"
    /\ coordinator.states_config[2].comparison = "greater"
    /\ coordinator.states_config[1].threshold < coordinator.states_config[2].threshold
    /\ coordinator.current_power > coordinator.states_config[2].threshold
    /\ coordinator.states_config[1].name # coordinator.states_config[2].name
    /\ threshold_state = coordinator.states_config[2].name

\* C10: comparisons are strict: a reading equal to a rule's threshold is never
\* classified by that rule (the result bears that rule's name only when another
\* rule of the same name, with another threshold, is satisfied).
C10_ThresholdItselfNeverMatches ==
    Classified =>
        \A i \in 1..Len(coordinator.states_config) :
            (/\ coordinator.states_config[i].threshold = coordinator.current_power
             /\ threshold_state = coordinator.states_config[i].name)
            => \E j \in 1..Len(coordinator.states_config) :
                   /\ coordinator.states_config[j].name = coordinator.states_config[i].name
                   /\ coordinator.states_config[j].threshold # coordinator.current_power
                   /\ Satisfies(coordinator.current_power, coordinator.states_config[j])

C10_Witness ==
    /\ Classified
    /\ Len(coordinator.states_config) = 2
    /\ coordinator.states_config[1].threshold = coordinator.current_power
    /\ coordinator.states_config[2].threshold = coordinator.current_power
    /\ coordinator.states_config[1].comparison = "greater"
    /\ coordinator.states_config[2].comparison = "less"
    /\ threshold_state = "unknown"

\* the snapshot comes from a valid reading
ValidSnapshot == data.current_state \notin {"none", "error"}

\* the states the code treats as active
IsActiveName(name) == name \notin {"idle", "bitti", "unknown"}

\* C11: while the state is an active state (neither Idle nor the last configured
\* state), a valid tick classified "unknown" leaves the state as it was.
C11_UnknownKeepsActiveState ==
    [][ (/\ coordinator.current_state \notin {"idle", FinishName(coordinator)}
         /\ IsValidTick
         /\ threshold_state' = "unknown")
        => coordinator'.current_state = coordinator.current_state ]_vars

C11_Witness ==
    /\ threshold_state = "unknown"
    /\ data.current_state = "mid"
    /\ coordinator.state_start_time < now
    /\ coordinator.current_power = 10

\* C12 (as claimed): in every snapshot from a valid reading cycle_duration is 0
\* exactly when the state is Idle.
C12_CycleDurationZeroIffIdle ==
    ValidSnapshot => (data.cycle_duration = 0 <=> data.current_state = "idle")

\* C12 (amended): in every snapshot from a valid reading cycle_duration is 0 when
\* the state is Idle or bitti, and in every other state it is the time since the
\* cycle opened (0 at the tick that opens it, positive afterwards).
C12_CycleDurationOfActiveStates ==
    ValidSnapshot =>
        IF data.current_state \in {"idle", "bitti"}
        THEN data.cycle_duration = 0
        ELSE /\ coordinator.cycle_start_time # None
             /\ data.cycle_duration = now - coordinator.cycle_start_time
             /\ (data.cycle_duration = 0 <=>
                    (data.state_duration = 0 /\ coordinator.cycle_start_time = now))

C12_Witness ==
    /\ data.current_state = "bitti"
    /\ coordinator.bitti_start_time # None
    /\ data.cycle_duration = 0
    /\ data.state_duration > 0

\* C13 (as claimed): from one valid tick to the next, neither in Idle,
\* cycle_duration does not decrease.
C13_CycleDurationMonotoneUntilIdle ==
    [][ (/\ ValidSnapshot
         /\ IsValidTick
         /\ coordinator.current_state # "idle"
         /\ coordinator'.current_state # "idle")
        => data'.cycle_duration >= data.cycle_duration ]_vars

\* C13 (amended): from one valid tick to the next, both in active states (the same
\* or another one), cycle_duration does not decrease; at the move into bitti it
\* drops to 0.
C13_CycleDurationMonotoneWhileActive ==
    [][ (/\ ValidSnapshot
         /\ IsValidTick
         /\ IsActiveName(coordinator.current_state))
        => /\ IsActiveName(coordinator'.current_state) =>
                  data'.cycle_duration >= data.cycle_duration
           /\ coordinator'.current_state = "bitti" => data'.cycle_duration = 0 ]_vars

C13_Witness ==
    /\ data.current_state = "mid"
    /\ data.state_duration = 0
    /\ data.cycle_duration > 0

\* C14 (as claimed): cycle_start_time is set to the tick's time when Idle is left,
\* becomes None when Idle is entered, is not None in any state but Idle, and no
\* other step changes it.
C14_CycleOpenOutsideIdle ==
    [][ /\ (coordinator.current_state = "idle" /\ coordinator'.current_state # "idle")
               => coordinator'.cycle_start_time = now'
        /\ (coordinator.current_state # "idle" /\ coordinator'.current_state = "idle")
               => coordinator'.cycle_start_time = None
        /\ coordinator'.current_state # "idle" => coordinator'.cycle_start_time # None
        /\ ((coordinator.current_state = "idle") <=> (coordinator'.current_state = "idle"))
               => coordinator'.cycle_start_time = coordinator.cycle_start_time ]_vars

\* C14 (amended): cycle_start_time is set to the tick's time when Idle is left for
\* an active state, becomes None when an active state is left for bitti or Idle, is
\* not None exactly in the active states (it is None in Idle and in bitti), and no
\* other step (Idle to bitti and bitti to Idle included) changes it.
C14_CycleOpenInActiveStates ==
    [][ /\ (coordinator.current_state = "idle" /\ IsActiveName(coordinator'.current_state))
               => coordinator'.cycle_start_time = now'
        /\ (IsActiveName(coordinator.current_state) /\ ~IsActiveName(coordinator'.current_state))
               => coordinator'.cycle_start_time = None
        /\ coordinator'.cycle_start_time # None <=> IsActiveName(coordinator'.current_state)
        /\ (IsActiveName(coordinator.current_state) <=> IsActiveName(coordinator'.current_state))
               => coordinator'.cycle_start_time = coordinator.cycle_start_time ]_vars

C14_Witness ==
    /\ coordinator.current_state = "mid"
    /\ coordinator.cycle_start_time # None
    /\ coordinator.cycle_start_time < coordinator.state_start_time
    /\ data.current_state = "mid"

\* C15 (as claimed): on every valid tick that ends in a state other than Idle the
\* cycle's energy grows by the mean of the last and the current power times the
\* seconds since the previous tick (here in watt-seconds, doubled to stay whole).
C15_EnergyGrowsByTrapezoid ==
    [][ (IsValidTick /\ coordinator'.current_state # "idle") =>
            2 * (energy_sensor'.energy_this_cycle - energy_sensor.energy_this_cycle)
                = (coordinator.current_power + coordinator'.current_power) * (now' - now) ]_vars

C17_FinishTimerIffFinish ==
    (coordinator.bitti_start_time # None) <=>
        (coordinator.current_state = FinishName(coordinator))

C19_IsActiveIffNotIdleNorFinish ==
    ValidSnapshot =>
        (data.is_active <=> data.current_state \notin {"idle", FinishName(coordinator)})

\* C20 (as claimed): whenever Idle is left the new state is the Start state (the
\* first configured state).
C20_IdleLeftForStart ==
    [][ (coordinator.current_state = "idle" /\ coordinator'.current_state # "idle")
        => coordinator'.current_state = StartName(coordinator) ]_vars

\* the state is an active one: neither Idle nor the last configured state
InActiveState == coordinator.current_state \notin {"idle", FinishName(coordinator)}

\* the time the finished timer shows at the next tick, started there if not running
FinishedElapsed ==
    now' - (IF coordinator.finished_timer_start = None THEN now'
            ELSE coordinator.finished_timer_start)

\* C21 (as claimed): an active state moves to Finish only at a valid tick classified
\* Finish at which finished_timer_start has run for finished_delay or more; that tick
\* clears finished_timer_start and sets bitti_start_time to its time; a tick
\* classified Finish before finished_delay has run keeps the active state.
C21_FinishOnlyAfterFinishedDelay ==
    [][ (InActiveState /\ IsValidTick) =>
            /\ coordinator'.current_state = FinishName(coordinator) =>
                   /\ threshold_state' = FinishName(coordinator)
                   /\ coordinator.finished_timer_start # None
                   /\ FinishedElapsed >= coordinator.finished_delay
                   /\ coordinator'.finished_timer_start = None
                   /\ coordinator'.bitti_start_time = now'
            /\ (/\ threshold_state' = FinishName(coordinator)
                /\ FinishedElapsed < coordinator.finished_delay)
                   => coordinator'.current_state = coordinator.current_state ]_vars

\* C22: in an active state, a valid tick classified as another active name (not
\* Unknown, not the last configured state) moves the state to that name at once and
\* leaves finished_timer_start None.
C22_OtherActiveNameAdoptedAtOnce ==
    [][ (/\ InActiveState
         /\ IsValidTick
         /\ threshold_state' \in ConfiguredNames(coordinator)
                                   \ {FinishName(coordinator), coordinator.current_state})
        => /\ coordinator'.current_state = threshold_state'
           /\ coordinator'.state_start_time = now'
           /\ coordinator'.finished_timer_start = None ]_vars

C22_Witness ==
    /\ coordinator.current_state = "mid"
    /\ threshold_state = "mid"
    /\ coordinator.state_start_time = now
    /\ coordinator.cycle_start_time # None
    /\ coordinator.cycle_start_time < now
    /\ coordinator.finished_timer_start = None

\* C23 (as claimed): in an active state, a valid tick classified Unknown leaves
\* active_timer_start and finished_timer_start as they were.
C23_UnknownLeavesTimers ==
    [][ (InActiveState /\ IsValidTick /\ threshold_state' = "unknown") =>
            /\ coordinator'.active_timer_start = coordinator.active_timer_start
            /\ coordinator'.finished_timer_start = coordinator.finished_timer_start ]_vars

\* C23 (amended): in an active state, a valid tick classified Unknown keeps the
\* state and clears finished_timer_start (a run of Finish readings broken by an
\* Unknown reading starts its wait again); active_timer_start and bitti_start_time
\* stay None.
C23_UnknownClearsFinishedTimer ==
    [][ (InActiveState /\ IsValidTick /\ threshold_state' = "unknown") =>
            /\ coordinator'.current_state = coordinator.current_state
            /\ coordinator'.finished_timer_start = None
            /\ coordinator'.active_timer_start = None
            /\ coordinator.active_timer_start = None
            /\ coordinator'.bitti_start_time = None ]_vars

C23_Witness ==
    /\ threshold_state = "unknown"
    /\ data.current_state = "run"
    /\ data.state_duration > 0
    /\ data.timers.finished_timer = 0
    /\ coordinator.finished_timer_start = None
    /\ coordinator.has_bitti_state

\* C24 (as claimed): the last configured state, whatever its name, is entered from
\* an active state only at a tick classified as it with finished_delay run out, is
\* kept while less than idle_delay has passed since it was entered, and is reported
\* with is_active false.
C24_FinishIsTheLastState ==
    [][ IsValidTick =>
            /\ (InActiveState /\ coordinator'.current_state = FinishName(coordinator)) =>
                   /\ threshold_state' = FinishName(coordinator)
                   /\ FinishedElapsed >= coordinator.finished_delay
            /\ (/\ coordinator.current_state = FinishName(coordinator)
                /\ now' - coordinator.state_start_time < coordinator.idle_delay)
                   => coordinator'.current_state = FinishName(coordinator)
            /\ coordinator'.current_state = FinishName(coordinator) => ~data'.is_active ]_vars

\* C25 (as claimed): Idle is entered only from the last configured state, and the
\* last configured state is entered only from an active state.
C25_LifeCycleOrder ==
    [][ /\ (coordinator.current_state # "idle" /\ coordinator'.current_state = "idle")
               => coordinator.current_state = FinishName(coordinator)
        /\ (/\ coordinator.current_state # FinishName(coordinator)
            /\ coordinator'.current_state = FinishName(coordinator))
               => coordinator.current_state # "idle" ]_vars

\* C26: timers are measured by the clock: at a valid tick with a qualifying
\* reading and a running timer the debounced move is made exactly when the time
\* since the timer started has reached the delay, however late the tick is and
\* whatever ticks failed in between; a failing tick leaves the timers as they are.
C26_TimersAreWallClock ==
    [][ /\ IsValidTick =>
            /\ (/\ coordinator.current_state = "idle"
                /\ coordinator.active_timer_start # None
                /\ threshold_state' = StartName(coordinator))
                   => (coordinator'.current_state # "idle" <=>
                          now' - coordinator.active_timer_start >= coordinator.active_delay)
            /\ (/\ InActiveState
                /\ coordinator.finished_timer_start # None
                /\ threshold_state' = FinishName(coordinator))
                   => (coordinator'.current_state = FinishName(coordinator) <=>
                          now' - coordinator.finished_timer_start >= coordinator.finished_delay)
            /\ (/\ coordinator.current_state = FinishName(coordinator)
                /\ coordinator.bitti_start_time # None)
                   => (coordinator'.current_state = "idle" <=>
                          now' - coordinator.bitti_start_time >= coordinator.idle_delay)
        /\ IsErrorTick =>
            /\ coordinator'.active_timer_start = coordinator.active_timer_start
            /\ coordinator'.finished_timer_start = coordinator.finished_timer_start
            /\ coordinator'.bitti_start_time = coordinator.bitti_start_time ]_vars

C26_Witness ==
    /\ data.current_state = "run"
    /\ coordinator.state_start_time = now
    /\ start_run_since # None
    /\ now - start_run_since > coordinator.active_delay
    /\ coordinator.active_timer_start = None

\* C27 (as claimed): the tick that moves the last configured state to Idle leaves
\* active_timer_start, finished_timer_start and bitti_start_time None, and Idle,
\* once returned to, is left only after an unbroken run of Start-classified ticks
\* that spans active_delay and lies after the return.
C27_IdleReturnClearsAndRearms ==
    [][ /\ (/\ coordinator.current_state = FinishName(coordinator)
            /\ coordinator'.current_state = "idle")
               => /\ coordinator'.active_timer_start = None
                  /\ coordinator'.finished_timer_start = None
                  /\ coordinator'.bitti_start_time = None
        /\ (/\ coordinator.current_state = "idle"
            /\ coordinator.state_start_time > 0
            /\ coordinator'.current_state # "idle")
               => /\ start_run_since' # None
                  /\ now' - start_run_since' >= coordinator.active_delay
                  /\ now' - coordinator.state_start_time >= coordinator.active_delay ]_vars

\* C28 (as claimed): a valid tick that finds the last configured state with
\* bitti_start_time None sets bitti_start_time to its time and keeps the state; with
\* bitti_start_time set, the state becomes Idle exactly when idle_delay has passed
\* since then.
C28_SelfHealing ==
    [][ (IsValidTick /\ coordinator.current_state = FinishName(coordinator)) =>
            IF coordinator.bitti_start_time = None
            THEN /\ coordinator'.bitti_start_time = now'
                 /\ coordinator'.current_state = FinishName(coordinator)
            ELSE coordinator'.current_state = "idle" <=>
                     now' - coordinator.bitti_start_time >= coordinator.idle_delay ]_vars

\* C29: the coordinator's state is never "unknown", and no snapshot of a valid
\* reading reports "unknown".
C29_StateNeverUnknown ==
    /\ coordinator.current_state # "unknown"
    /\ ValidSnapshot => data.current_state # "unknown"

C29_Witness ==
    /\ threshold_state = "unknown"
    /\ data.current_state = "idle"
    /\ data.current_power = 10
    /\ data.state_duration > coordinator.active_delay
    /\ coordinator.active_timer_start = None

\* C30 (as claimed): in every snapshot of a valid reading the idle-remaining value
\* is max(0, idle_delay - seconds since the last configured state was entered) in
\* that state and 0 in every other, and every remaining time lies between 0 and
\* its delay.
C30_RemainingTimes ==
    ValidSnapshot =>
        LET attrs == extra_state_attributes(data)
            left == coordinator.idle_delay - (now - coordinator.state_start_time)
        IN /\ attrs.idle_in = IF data.current_state = FinishName(coordinator)
                              THEN (IF left > 0 THEN left ELSE 0) ELSE 0
           /\ attrs.active_in \in 0..coordinator.active_delay
           /\ attrs.finished_in \in 0..coordinator.finished_delay
           /\ attrs.idle_in \in 0..coordinator.idle_delay

\* C34: state_start_time changes exactly at the ticks that change the state, where
\* it becomes the tick's time and the reported state_duration is 0; a tick that
\* keeps the state (a failing one included) leaves it, and from one valid snapshot
\* to the next state_duration does not decrease.
C34_StateStartFollowsStateChange ==
    [][ now' # now =>
            IF coordinator'.current_state # coordinator.current_state
            THEN /\ coordinator'.state_start_time = now'
                 /\ IsValidTick
                 /\ data'.state_duration = 0
            ELSE /\ coordinator'.state_start_time = coordinator.state_start_time
                 /\ IsValidTick => data'.state_duration = now' - coordinator.state_start_time
                 /\ (IsValidTick /\ ValidSnapshot) =>
                        data'.state_duration >= data.state_duration ]_vars

C34_Witness ==
    /\ data.current_state = "bitti"
    /\ coordinator.state_start_time = now
    /\ coordinator.bitti_start_time = now
    /\ data.state_duration = 0

\* C35: a reading that satisfies both a "greater" rule and a "less" rule is
\* classified by a "greater" rule (the satisfied one of highest threshold); the
\* result comes from a "less" rule only when no "greater" rule is satisfied.
C35_GreaterFamilyFirst ==
    Classified =>
        LET G == SatisfiedRules(coordinator, "greater")
            L == SatisfiedRules(coordinator, "less")
            name(i) == coordinator.states_config[i].name
            th(i) == coordinator.states_config[i].threshold
        IN /\ (G # {} /\ L # {}) =>
                  \E i \in G : /\ threshold_state = name(i)
                               /\ \A j \in G : th(j) <= th(i)
           /\ (/\ \E i \in L : threshold_state = name(i)
               /\ \A i \in G : threshold_state # name(i))
                  => G = {}

C35_Witness ==
    /\ Classified
    /\ Len(coordinator.states_config) = 2
    /\ coordinator.states_config[1] = Rule("bitti", 2, COMPARISON_LESS)
    /\ coordinator.states_config[2] = Rule("run", 0, COMPARISON_GREATER)
    /\ coordinator.current_power = 1
    /\ threshold_state = "run"

\* C33 (as claimed): at every step that ends the coordinator's cycle (an active
\* state left for Finish or Idle) total_cycles grows by one and
\* last_cycle_duration becomes the length of that cycle; at every other step
\* total_cycles is unchanged.
C33_CompletedCyclesCounted ==
    [][ IF coordinator.cycle_start_time # None /\ coordinator'.cycle_start_time = None
        THEN /\ cycle_sensor'.total_cycles = cycle_sensor.total_cycles + 1
             /\ cycle_sensor'.last_cycle_duration = now' - coordinator.cycle_start_time
        ELSE cycle_sensor'.total_cycles = cycle_sensor.total_cycles ]_vars

\* a coordinator has been set up
EngineRuns == coordinator # NoCoordinator

\* the configuration a coordinator works with
EngineConfig(c) ==
    [ states |-> c.states_config,
      active_delay |-> c.active_delay,
      finished_delay |-> c.finished_delay,
      idle_delay |-> c.idle_delay,
      scan_interval |-> c.scan_interval ]

\* C31 (as claimed): every states configuration a coordinator is set up with, by
\* the setup flow or by the options flow, has two states or more, the comparison
\* "greater" in its first state and the comparison "less" in its last.
C31_FlowsForceStartAndFinish ==
    EngineRuns =>
        LET states == coordinator.states_config
        IN /\ Len(states) >= 2
           /\ states[1].comparison = COMPARISON_GREATER
           /\ states[Len(states)].comparison = COMPARISON_LESS

\* C32: no step of the options flow changes the states or the delays of the
\* running coordinator; they change only when the last step stores new data in the
\* entry, and then the coordinator is a new one, made from that data, Idle since
\* that instant, with no cycle open and no timer carried over.
C32_ReconfigurationReplacesEngine ==
    [][ EngineRuns =>
            /\ (flow.kind = "options" /\ flow'.kind = "options")
                   => EngineConfig(coordinator') = EngineConfig(coordinator)
            /\ EngineConfig(coordinator') # EngineConfig(coordinator) =>
                   /\ flow.kind = "options" /\ flow.step = "timing"
                   /\ flow' = NoFlow
                   /\ entry' # entry
                   /\ EngineConfig(coordinator') = entry'
                   /\ coordinator'.current_state = "idle"
                   /\ coordinator'.state_start_time = now'
                   /\ coordinator'.cycle_start_time = None
                   /\ coordinator'.finished_timer_start = None
                   /\ coordinator'.bitti_start_time = None
                   /\ coordinator'.active_timer_start \in {None, now'} ]_vars

C32_Witness ==
    /\ EngineRuns
    /\ flow.kind = "options"
    /\ flow.step = "timing"
    /\ flow.states # coordinator.states_config
    /\ coordinator.states_config = entry.states
    /\ coordinator.current_state = "run"
    /\ now > coordinator.state_start_time

=============================================================================
